---- MODULE Spec2Model ----
(***************************************************************************)
(* Model of the metrics bridge (src/monitoring/metrics_bridge.py), of the   *)
(* bulk writers (src/prom_to_es.py, src/load_mock_to_es.py) and of the      *)
(* query service (src/monitoring/rag_query/rag_query.py): index creation,   *)
(* the /query handler and its Elasticsearch logging with retries.           *)
(*                                                                         *)
(* Each component has its own specification (Spec, SpecCfg, SpecRetry,      *)
(* SpecParse, SpecWriters, SpecIndex, SpecQuery); the variables of the      *)
(* components a specification does not run stay at their "off" values.      *)
(*                                                                         *)
(* Strings are sequences of one-character strings, so that split, strip,   *)
(* startswith, float() and json.dumps are computed as Python computes      *)
(* them.  Time is counted in whole seconds for the bridge and in           *)
(* milliseconds for the retry helper (backoff 0.5 s = 500 ms).             *)
(***************************************************************************)
EXTENDS Integers, Sequences, FiniteSets, TLC

VARIABLES
    \* ---- bridge: main() of metrics_bridge.py
    endpoints,      \* PROM_ENDPOINTS, the configured source URLs
    mode,           \* per source: how its endpoint behaves ("any", "fail", "ok")
    pc,             \* position of main(): "poll", "push", "exited" ("off": not started)
    tick,           \* number of completed passes of the while loop
    idx,            \* position of the for loop in endpoints (1-based)
    now,            \* wall clock, seconds
    pending,        \* arguments of the push_to_elasticsearch call in progress
    fetchLog,       \* fetches of the current tick, in order: source and outcome
    pushLog,        \* documents handed to push_to_elasticsearch in the current tick
    failedBefore,   \* per source: did its fetch fail in the previous tick
    \* ---- retry helper: _post_json_with_retries / log_to_elasticsearch
    caller,         \* "log_to_elasticsearch" or "direct"
    attempts,       \* parameter attempts
    backoff,        \* parameter backoff, milliseconds
    sink,           \* what the sink answers to the 1st, 2nd, ... POST
    rpc,            \* position: "loop", "sleep", "returned", "raised", "done" ("off")
    i,              \* loop variable of for i in range(attempts)
    last_exc,       \* local last_exc
    raised,         \* exception _post_json_with_retries raised to its caller
    escaped,        \* exception that left log_to_elasticsearch
    res,            \* status code of the response returned (0: none)
    sent,           \* outcomes of the POSTs performed so far, in order
    sleeps,         \* durations of the sleeps performed so far, in order
    logStatus,      \* what log_to_elasticsearch printed at the end
    \* ---- bridge, continued
    lastTs,         \* per source: "@timestamp" of its latest document of earlier ticks
    \* ---- calls of parse_prometheus_metrics
    plines,         \* the lines the payload of the current call was written from
    ptext,          \* the payload text of the current call
    presult,        \* the mapping returned by the latest call
    pprev,          \* the payload text of the call before
    pprevResult,    \* the mapping returned by the call before
    pcount,         \* number of calls made
    \* ---- sink writers: push_to_elasticsearch, push_bulk_to_es, load_mock_to_es
    wcall,          \* which writer is called
    wdocs,          \* the batch of documents given to it
    wpc,            \* "call", "done", "hung" ("off": not called)
    wposts,         \* number of requests.post calls performed
    wbody,          \* the request body of the bulk POST
    wreport,        \* what the writer printed
    wraised,        \* exception that left the writer
    wout,           \* what the sink did with the POST
    \* ---- ensure_elastic_index
    epc,            \* "get", "put", "done" ("off")
    etimeout,       \* parameter timeout
    getOut,         \* what the sink does with the GET
    putOut,         \* what the sink does with the PUT
    egets,          \* number of GETs issued
    eputs,          \* number of PUTs issued
    eresult,        \* the value returned ("True", "False", None)
    eraised,        \* exception that left ensure_elastic_index
    \* ---- query_docs
    qpc,            \* "retrieve", "generate", "log", "respond", "done" ("off")
    ntotal,         \* index.ntotal, number of vectors in the FAISS index
    metadata,       \* the metadata list (one entry per chunk)
    idxs,           \* idxs[0], the ids returned by index.search
    contexts,       \* the list contexts
    qsuccess,       \* rag_queries_total{status="success"}
    qerror,         \* rag_queries_total{status="error"}
    logCalls,       \* number of calls of log_to_elasticsearch in this request
    response,       \* status code of the response returned (0: none yet)
    qexc            \* the exception caught by the outer except of query_docs

bridgeVars == <<endpoints, mode, pc, tick, idx, now, pending, fetchLog, pushLog, failedBefore,
               lastTs>>
retryVars == <<caller, attempts, backoff, sink, rpc, i, last_exc, raised, escaped, res, sent, sleeps,
              logStatus>>
parseVars == <<plines, ptext, presult, pprev, pprevResult, pcount>>
writerVars == <<wcall, wdocs, wpc, wposts, wbody, wreport, wraised, wout>>
indexVars == <<epc, etimeout, getOut, putOut, egets, eputs, eresult, eraised>>
queryVars == <<qpc, ntotal, metadata, idxs, contexts, qsuccess, qerror, logCalls, response, qexc>>
auxVars == <<parseVars, writerVars, indexVars, queryVars>>
vars == <<endpoints, mode, pc, tick, idx, now, pending, fetchLog, pushLog, failedBefore,
          caller, attempts, backoff, sink, rpc, i, last_exc, raised, escaped, res, sent, sleeps,
          logStatus, lastTs, parseVars, writerVars, indexVars, queryVars>>

None == "None"

\* ------------------------------------------------------------------ bounds
MaxTicks == 1
MaxAttempts == 3
MaxDocs == 2
MaxLines == 3
MaxVec == 3

\* ------------------------------------------------------- program constants
PROM_ENDPOINTS ==
    << <<"h","t","t","p",":","/","/","l","o","c","a","l","h","o","s","t",":","8","0","0","0","/","m","e","t","r","i","c","s">>,
       <<"h","t","t","p",":","/","/","l","o","c","a","l","h","o","s","t",":","8","0","1","1","/","m","e","t","r","i","c","s">> >>
FETCH_TIMEOUT == 5
PUSH_TIMEOUT == 5
POLL_INTERVAL == 10
DEFAULT_ATTEMPTS == 3
DEFAULT_BACKOFF == 500

\* ---------------------------------------------------------- string helpers
\* the positions of sep in s
SepPositions(s, sep) == {k \in 1..Len(s) : s[k] = sep}

\* str.split(sep) with an explicit separator: the pieces between successive
\* separators, empty pieces kept
Split(s, sep) ==
    LET hits == SepPositions(s, sep)
        n == Cardinality(hits)
        Cut(j) == IF j = 0 THEN 0
                  ELSE IF j = n + 1 THEN Len(s) + 1
                  ELSE CHOOSE k \in hits : Cardinality({h \in hits : h < k}) = j - 1
    IN  [j \in 1..(n + 1) |-> SubSeq(s, Cut(j - 1) + 1, Cut(j) - 1)]

\* str.splitlines(): pieces between line breaks, no empty piece after a final break
SplitLines(text) ==
    LET pieces == Split(text, "\n")
    IN  IF pieces[Len(pieces)] = <<>> THEN SubSeq(pieces, 1, Len(pieces) - 1) ELSE pieces

IsSpace(c) == c \in {" ", "\t"}

RECURSIVE WordsAcc(_, _)
WordsAcc(s, cur) ==
    IF s = <<>> THEN (IF cur = <<>> THEN <<>> ELSE <<cur>>)
    ELSE IF IsSpace(Head(s))
         THEN (IF cur = <<>> THEN <<>> ELSE <<cur>>) \o WordsAcc(Tail(s), <<>>)
         ELSE WordsAcc(Tail(s), Append(cur, Head(s)))

\* line.strip().split(): the maximal runs of non-whitespace characters
StripSplit(line) == WordsAcc(line, <<>>)

StartsWith(line, c) == Len(line) >= 1 /\ line[1] = c

Contains(line, c) == \E k \in 1..Len(line) : line[k] = c

\* ------------------------------------------------------------- float(value)
Digits == {"0", "1", "2", "3", "4", "5", "6", "7", "8", "9"}

DigitVal(c) ==
    CASE c = "0" -> 0 [] c = "1" -> 1 [] c = "2" -> 2 [] c = "3" -> 3 [] c = "4" -> 4
      [] c = "5" -> 5 [] c = "6" -> 6 [] c = "7" -> 7 [] c = "8" -> 8 [] c = "9" -> 9

RECURSIVE DigitsVal(_, _)
DigitsVal(s, acc) == IF s = <<>> THEN acc ELSE DigitsVal(Tail(s), 10 * acc + DigitVal(Head(s)))

RECURSIVE DropTrailingZeros(_)
DropTrailingZeros(s) ==
    IF s # <<>> /\ s[Len(s)] = "0" THEN DropTrailingZeros(SubSeq(s, 1, Len(s) - 1)) ELSE s

\* float() over the characters of the model (digits, sign, decimal point and
\* letters that spell no float literal): a decimal literal is accepted,
\* everything else raises ValueError (err).  The value is kept exactly, as
\* mantissa m and number of decimals e (m / 10^e), sign neg.
ParseFloat(tok) ==
    LET signed == tok # <<>> /\ tok[1] \in {"+", "-"}
        body == IF signed THEN Tail(tok) ELSE tok
        parts == Split(body, ".")
        ok == /\ Len(parts) \in {1, 2}
              /\ \A p \in 1..Len(parts) : \A k \in 1..Len(parts[p]) : parts[p][k] \in Digits
              /\ \E p \in 1..Len(parts) : parts[p] # <<>>
        frac == IF Len(parts) = 2 THEN DropTrailingZeros(parts[2]) ELSE <<>>
        m == DigitsVal(parts[1] \o frac, 0)
    IN  IF ok THEN [err |-> None, m |-> m, e |-> Len(frac),
                    neg |-> (signed /\ tok[1] = "-" /\ m # 0)]
        ELSE [err |-> "ValueError", m |-> 0, e |-> 0, neg |-> FALSE]

\* ----------------------------------------------- parse_prometheus_metrics
\* faulty variant: the first line carrying a name wins
DictKeepFirst(metrics, name, value) ==
    [n \in (DOMAIN metrics) \cup {name} |-> IF n \in DOMAIN metrics THEN metrics[n] ELSE value]

\* metrics[name] = float(value)
DictSet(metrics, name, value) ==
    [n \in (DOMAIN metrics) \cup {name} |-> IF n = name THEN value ELSE metrics[n]]

EmptyDict == [n \in {} |-> 0]

\* the body of the for loop, for one line
ParseLine(metrics, line) ==
    IF StartsWith(line, "#") \/ Contains(line, "{") THEN metrics
    ELSE LET parts == StripSplit(line)
         IN  IF Len(parts) = 2
             THEN IF ParseFloat(parts[2]).err = "ValueError" THEN metrics
                  ELSE DictSet(metrics, parts[1], ParseFloat(parts[2]))
             ELSE metrics

RECURSIVE ParseLines(_, _)
ParseLines(metrics, lines) ==
    IF lines = <<>> THEN metrics ELSE ParseLines(ParseLine(metrics, Head(lines)), Tail(lines))

\* faulty variant: the mapping is a module-level dict that is never reset
MetricsKeptBetweenCalls == presult

\* metrics = {}: every call starts from a new, empty dict
FreshMetrics == EmptyDict

parse_prometheus_metrics(text) == ParseLines(FreshMetrics, SplitLines(text))

\* --------------------------------------------------------- the environment
Payloads ==
    { <<"a"," ","4","2","\n","b"," ","0",".","0","7","\n","#"," ","h","\n","b","a","d","\n">>,
      <<"a"," ","1","\n","a"," ","2",".","5","\n","c","{","x","}"," ","3","\n">>,
      <<>> }

\* what requests.get can do: raise, or return a response (status, text)
FetchOutcomes ==
    [exc : {"ConnectionError", "Timeout"}, status : {0}, text : {<<>>}]
    \cup [exc : {None}, status : {200, 204}, text : Payloads]
    \cup [exc : {None}, status : {404, 500}, text : {<<>>}]

\* what requests.post to the sink can do
SinkOutcomes ==
    [exc : {"ConnectionError", "Timeout"}, status : {0}]
    \cup [exc : {None}, status : {200, 201, 503}]

FetchFailed(o) == o.exc # None \/ o.status \notin 200..299

\* a source in mode "fail" always fails, one in mode "ok" always answers 200
Allowed(o, m) ==
    CASE m = "fail" -> FetchFailed(o)
      [] m = "ok"   -> o.exc = None /\ o.status = 200
      [] OTHER      -> TRUE

\* seconds a call takes: a timeout takes the whole timeout, anything else less
\* (an answered fetch takes one second, an answered sink write none)
Durations(o, timeout, samples) == IF o.exc = "Timeout" THEN {timeout} ELSE samples

\* ------------------------------------------------------------------ main()
\* url.split(":")[2] raises IndexError when the URL has fewer than three pieces
CanDerive(url) == Len(Split(url, ":")) >= 3

\* service_name = url.split(":")[2].split("/")[0]
ServiceName(url) == Split(Split(url, ":")[3], "/")[1]

\* faulty variant: a handler narrower than Exception lets a timeout propagate
MainCatchesOnlyConnectionError(exc) == exc = "ConnectionError"

\* except Exception as e: every exception of requests.get is caught
MainCatches(exc) == TRUE

\* faulty variant: a failed fetch ends the for loop of this tick
BreakAfterFailure(k) == Len(endpoints) + 1

\* faulty variant: a failed fetch is repeated within the tick
RetryAfterFailure(k) == k

\* after a failed fetch the for loop goes on with the next url
AfterFailure(k) == k + 1

\* r.status_code == 200
FetchAccepted(o) == o.status = 200

SinkAccepted(o) == o.exc = None /\ o.status \in {200, 201}

\* faulty variant: the timestamp is computed once, when the module is loaded
ClockAtImport(clock) == 0

\* datetime.utcnow(): the wall clock at the moment the document is built
UtcNow(clock) == clock

\* .isoformat(): the instant written as fields (minute and second of the run)
IsoFormat(t) == [minute |-> t \div 60, second |-> t % 60]

\* the instant an "@timestamp" denotes
InstantOf(ts) == 60 * ts.minute + ts.second

\* no document sent yet: a timestamp that denotes the start of the run
NoTimestamp == IsoFormat(0)

\* no call of push_to_elasticsearch in progress
NoPending == [service |-> <<>>, metrics |-> EmptyDict, payload |-> <<>>, fetchStart |-> 0]

Sources == 1..Len(endpoints)

PushedFor(s) == {k \in 1..Len(pushLog) : pushLog[k].src = s}

Fetched(s) == {k \in 1..Len(fetchLog) : fetchLog[k].src = s}

TickDone == pc = "poll" /\ idx > Len(endpoints)

ParseOff ==
    /\ plines = <<>> /\ ptext = <<>> /\ presult = EmptyDict /\ pprev = <<>>
    /\ pprevResult = EmptyDict /\ pcount = 0

WritersOff ==
    /\ wcall = None /\ wdocs = <<>> /\ wpc = "off" /\ wposts = 0 /\ wbody = <<>>
    /\ wreport = None /\ wraised = None /\ wout = [exc |-> None, status |-> 0]

IndexOff ==
    /\ epc = "off" /\ etimeout = 0 /\ getOut = [exc |-> None, status |-> 0]
    /\ putOut = [exc |-> None, status |-> 0] /\ egets = 0 /\ eputs = 0
    /\ eresult = None /\ eraised = None

QueryOff ==
    /\ qpc = "off" /\ ntotal = 0 /\ metadata = <<>> /\ idxs = <<>> /\ contexts = <<>>
    /\ qsuccess = 0 /\ qerror = 0 /\ logCalls = 0 /\ response = 0 /\ qexc = None

RetryOff ==
    /\ caller = None /\ attempts = 0 /\ backoff = 0 /\ sink = <<>> /\ rpc = "off"
    /\ i = 0 /\ last_exc = None /\ raised = None /\ escaped = None /\ res = 0 /\ sent = <<>> /\ sleeps = <<>>
    /\ logStatus = None

BridgeInit ==
    /\ endpoints = PROM_ENDPOINTS
    /\ mode \in [1..Len(PROM_ENDPOINTS) -> {"any", "fail", "ok"}]
    /\ pc = "poll"
    /\ tick = 0
    /\ idx = 1
    /\ now = 0
    /\ pending = NoPending
    /\ fetchLog = <<>>
    /\ pushLog = <<>>
    /\ failedBefore = [s \in 1..Len(PROM_ENDPOINTS) |-> FALSE]
    /\ lastTs = [s \in 1..Len(PROM_ENDPOINTS) |-> NoTimestamp]

Init == BridgeInit /\ RetryOff /\ ParseOff /\ WritersOff /\ IndexOff /\ QueryOff

\* one pass of the for loop up to the call of push_to_elasticsearch
Poll ==
    /\ pc = "poll"
    /\ idx <= Len(endpoints)
    /\ IF ~CanDerive(endpoints[idx])
       THEN /\ pc' = "exited"
            /\ UNCHANGED <<idx, now, pending, fetchLog>>
       ELSE \E o \in FetchOutcomes : \E d \in Durations(o, FETCH_TIMEOUT, {1}) :
            /\ Allowed(o, mode[idx])
            /\ fetchLog' = Append(fetchLog, [src |-> idx, exc |-> o.exc, status |-> o.status])
            /\ now' = now + d
            /\ IF o.exc # None
               THEN IF MainCatches(o.exc)
                    THEN pc' = "poll" /\ idx' = AfterFailure(idx) /\ pending' = NoPending
                    ELSE pc' = "exited" /\ UNCHANGED <<idx, pending>>
               ELSE IF FetchAccepted(o)
                    THEN /\ pc' = "push"
                         /\ pending' = [service |-> ServiceName(endpoints[idx]),
                                        metrics |-> parse_prometheus_metrics(o.text),
                                        payload |-> o.text,
                                        fetchStart |-> now]
                         /\ UNCHANGED idx
                    ELSE pc' = "poll" /\ idx' = AfterFailure(idx) /\ pending' = NoPending
    /\ UNCHANGED <<endpoints, mode, tick, pushLog, failedBefore, lastTs>>
    /\ UNCHANGED retryVars
    /\ UNCHANGED auxVars

\* push_to_elasticsearch(service_name, metrics): one POST, outcome printed
Push ==
    /\ pc = "push"
    /\ \E o \in SinkOutcomes : \E d \in Durations(o, PUSH_TIMEOUT, {0}) :
        /\ pushLog' = Append(pushLog,
                             [src |-> idx,
                              service |-> pending.service,
                              metrics |-> pending.metrics,
                              payload |-> pending.payload,
                              timestamp |-> IsoFormat(UtcNow(now)),
                              fetchStart |-> pending.fetchStart,
                              posts |-> 1,
                              ok |-> SinkAccepted(o)])
        /\ now' = now + d
    /\ pending' = NoPending
    /\ idx' = idx + 1
    /\ pc' = "poll"
    /\ UNCHANGED <<endpoints, mode, tick, fetchLog, failedBefore, lastTs>>
    /\ UNCHANGED retryVars
    /\ UNCHANGED auxVars

\* time.sleep(10) at the end of the for loop, then the next pass of while True
Sleep ==
    /\ TickDone
    /\ tick < MaxTicks
    /\ now' = now + POLL_INTERVAL
    /\ tick' = tick + 1
    /\ idx' = 1
    /\ failedBefore' = [s \in Sources |-> \E k \in Fetched(s) : FetchFailed(fetchLog[k])]
    /\ fetchLog' = <<>>
    /\ pushLog' = <<>>
    /\ lastTs' = [s \in Sources |-> IF PushedFor(s) = {} THEN lastTs[s]
                                     ELSE pushLog[CHOOSE k \in PushedFor(s) :
                                                     \A j \in PushedFor(s) : j <= k].timestamp]
    /\ UNCHANGED <<endpoints, mode, pc, pending>>
    /\ UNCHANGED retryVars
    /\ UNCHANGED auxVars

Next == Poll \/ Push \/ Sleep

Spec == Init /\ [][Next]_vars

\* ------------------------------------------------ _post_json_with_retries
BackoffBases == {100, DEFAULT_BACKOFF}

\* faulty variant: range(attempts + 1)
LoopRunsOnceMore(k, n) == k <= n

\* for i in range(attempts): the body runs for i = 0 .. attempts - 1
MoreAttempts(k, n) == k < n

\* faulty variant: exponential instead of linear backoff
ExponentialSleep(b, k) == b * (2 ^ (k + 1))

\* time.sleep(backoff * (i + 1))
SleepFor(b, k) == b * (k + 1)

\* faulty variant: only the first exception is remembered
KeepFirstExc(last, e) == IF last = None THEN e ELSE last

\* last_exc = e
RecordExc(last, e) == e

\* faulty variant: the response is not returned from inside the loop
ReturnsNever(o) == FALSE

\* return res: whatever the status of the response
ReturnsResponse(o) == TRUE

\* faulty variant: a handler narrower than Exception
LogCatchesOnlyConnectionError(exc) == exc = "ConnectionError"

\* except Exception as e in log_to_elasticsearch
LogCatches(exc) == TRUE

\* raise last_exc; with attempts = 0 nothing was caught and raise None is a TypeError
RaisedBy(last) == IF last = None THEN "TypeError" ELSE last

BridgeOff ==
    /\ endpoints = PROM_ENDPOINTS
    /\ mode = [s \in 1..Len(PROM_ENDPOINTS) |-> "any"]
    /\ pc = "off" /\ tick = 0 /\ idx = 1 /\ now = 0 /\ pending = NoPending
    /\ fetchLog = <<>> /\ pushLog = <<>>
    /\ failedBefore = [s \in 1..Len(PROM_ENDPOINTS) |-> FALSE]
    /\ lastTs = [s \in 1..Len(PROM_ENDPOINTS) |-> NoTimestamp]

\* a call of _post_json_with_retries: by log_to_elasticsearch (attempts=3,
\* backoff=0.5), or directly with any attempts and backoff
RetryInit ==
    /\ caller \in {"log_to_elasticsearch", "direct"}
    /\ attempts \in (IF caller = "direct" THEN 0..MaxAttempts ELSE {DEFAULT_ATTEMPTS})
    /\ backoff \in (IF caller = "direct" THEN BackoffBases ELSE {DEFAULT_BACKOFF})
    /\ sink \in [1..(MaxAttempts + 1) -> SinkOutcomes]
    /\ rpc = "loop"
    /\ i = 0
    /\ last_exc = None
    /\ raised = None
    /\ escaped = None
    /\ res = 0
    /\ sent = <<>>
    /\ sleeps = <<>>
    /\ logStatus = None

InitRetry == BridgeOff /\ RetryInit /\ ParseOff /\ WritersOff /\ IndexOff /\ QueryOff

\* try: res = requests.post(...); return res / except Exception as e: last_exc = e
Attempt ==
    /\ rpc = "loop"
    /\ MoreAttempts(i, attempts)
    /\ LET o == sink[Len(sent) + 1]
       IN  /\ sent' = Append(sent, o)
           /\ IF o.exc = None
              THEN IF ReturnsResponse(o)
                   THEN rpc' = "returned" /\ res' = o.status /\ UNCHANGED <<i, last_exc>>
                   ELSE rpc' = "loop" /\ i' = i + 1 /\ UNCHANGED <<res, last_exc>>
              ELSE rpc' = "sleep" /\ last_exc' = RecordExc(last_exc, o.exc)
                   /\ UNCHANGED <<i, res>>
    /\ UNCHANGED <<caller, attempts, backoff, sink, raised, escaped, sleeps, logStatus>>
    /\ UNCHANGED bridgeVars
    /\ UNCHANGED auxVars

\* time.sleep(backoff * (i + 1)) in the except branch, then the next i
Backoff ==
    /\ rpc = "sleep"
    /\ sleeps' = Append(sleeps, SleepFor(backoff, i))
    /\ i' = i + 1
    /\ rpc' = "loop"
    /\ UNCHANGED <<caller, attempts, backoff, sink, last_exc, raised, escaped, res, sent, logStatus>>
    /\ UNCHANGED bridgeVars
    /\ UNCHANGED auxVars

\* raise last_exc after the loop
Raise ==
    /\ rpc = "loop"
    /\ ~MoreAttempts(i, attempts)
    /\ raised' = RaisedBy(last_exc)
    /\ rpc' = "raised"
    /\ UNCHANGED <<caller, attempts, backoff, sink, i, last_exc, escaped, res, sent, sleeps, logStatus>>
    /\ UNCHANGED bridgeVars
    /\ UNCHANGED auxVars

\* log_to_elasticsearch after the call: print the outcome, swallow the exception
LogOutcome ==
    /\ caller = "log_to_elasticsearch"
    /\ rpc \in {"returned", "raised"}
    /\ rpc' = "done"
    /\ IF rpc = "returned"
       THEN /\ logStatus' = IF res \in {200, 201} THEN "logged" ELSE "failed to log"
            /\ UNCHANGED escaped
       ELSE IF LogCatches(raised)
            THEN logStatus' = "failed after retries" /\ UNCHANGED escaped
            ELSE escaped' = raised /\ UNCHANGED logStatus
    /\ UNCHANGED <<caller, attempts, backoff, sink, i, last_exc, raised, res, sent, sleeps>>
    /\ UNCHANGED bridgeVars
    /\ UNCHANGED auxVars

NextRetry == Attempt \/ Backoff \/ Raise \/ LogOutcome

SpecRetry == InitRetry /\ [][NextRetry]_vars

\* ======================================================= bridge properties
\* number of sources whose pass of the for loop has begun in the current tick
Begun == IF pc = "push" THEN idx ELSE idx - 1

\* C1: isolation.  With one source whose fetch always fails and one whose
\* fetch always succeeds (answers 200), at the end of every tick exactly one
\* document of the succeeding source, and none of the failing source, has
\* been handed to push_to_elasticsearch, in either configuration order.
C1_Isolation ==
    \A f \in Sources : \A g \in Sources :
        (mode[f] = "fail" /\ mode[g] = "ok" /\ TickDone) =>
            /\ Cardinality(PushedFor(g)) = 1
            /\ \A k \in PushedFor(g) : pushLog[k].service = ServiceName(endpoints[g])
            /\ PushedFor(f) = {}

C1_Witness ==
    /\ mode[1] = "fail" /\ mode[2] = "ok"
    /\ TickDone /\ tick >= 1
    /\ failedBefore[1]
    /\ Len(pushLog) = 1 /\ pushLog[1].src = 2

\* C2: the loop never exits on error.  main is always inside the while loop
\* (polling a source or pushing its document), whatever the fetches and the
\* sink writes did, and it always has a next step: the next source, or the
\* sleep and the next tick (up to the bound on ticks).
C2_NeverExits ==
    /\ pc \in {"poll", "push"}
    /\ (~(TickDone /\ tick = MaxTicks)) => ENABLED Next

C2_Witness ==
    /\ tick >= 1 /\ pc = "poll" /\ idx = 3
    /\ failedBefore[1] /\ failedBefore[2]
    /\ fetchLog[1].exc = "Timeout"
    /\ Len(pushLog) = 1 /\ ~pushLog[1].ok

\* C3: in every tick the sources are fetched once each, in configuration
\* order, whatever happened before; a failed fetch (exception or non-2xx) is
\* not repeated in the tick and no document of that source is handed to the
\* sink in that tick.
C3_OncePerTickInOrder ==
    /\ Len(fetchLog) = Begun
    /\ \A k \in 1..Len(fetchLog) : fetchLog[k].src = k
    /\ TickDone => Len(fetchLog) = Len(endpoints)
    /\ \A k \in 1..Len(fetchLog) : FetchFailed(fetchLog[k]) => PushedFor(fetchLog[k].src) = {}

C3_Witness ==
    /\ tick >= 1 /\ TickDone
    /\ failedBefore[1]
    /\ FetchFailed(fetchLog[1]) /\ ~FetchFailed(fetchLog[2])
    /\ Len(pushLog) = 1

\* C4: a fetch answered with any 2xx status is a success: once the pass of
\* the for loop for that source is over, a document of that source has been
\* handed to the sink writer.
C4_Any2xxIsPushed ==
    \A k \in 1..Len(fetchLog) :
        (fetchLog[k].exc = None /\ fetchLog[k].status \in 200..299
         /\ (idx > fetchLog[k].src))
            => PushedFor(fetchLog[k].src) # {}

\* C5: a document whose sink write fails is given up only after the attempt
\* ceiling of POSTs, never after a single one.
C5_SinkWriteRetried ==
    \A k \in 1..Len(pushLog) : ~pushLog[k].ok => pushLog[k].posts = DEFAULT_ATTEMPTS

\* ================================================= retry helper properties
RECURSIVE SumSeq(_)
SumSeq(q) == IF q = <<>> THEN 0 ELSE Head(q) + SumSeq(Tail(q))

\* a sink write failed: transport exception, timeout, or a status other than 200/201
SinkFailed(o) == ~SinkAccepted(o)

Finished == rpc \in {"returned", "raised", "done"}

Successes == {j \in 1..Len(sent) : SinkAccepted(sent[j])}

\* C6: the sink answers 503, 503, 201 and attempts = 3: exactly 3 POSTs,
\* exactly two sleeps, the second longer than the first, and the operation
\* is reported as a success.
C6_Scenario503Then201 ==
    (/\ attempts = 3
     /\ sink[1].exc = None /\ sink[1].status = 503
     /\ sink[2].exc = None /\ sink[2].status = 503
     /\ sink[3].exc = None /\ sink[3].status = 201
     /\ Finished /\ (caller = "log_to_elasticsearch" => rpc = "done"))
        => /\ Len(sent) = 3
           /\ Len(sleeps) = 2
           /\ sleeps[2] > sleeps[1]
           /\ res = 201
           /\ (caller = "log_to_elasticsearch" => logStatus = "logged")

\* C7: retry ceiling.  For attempts = N >= 1 and any outcomes, at most N POSTs
\* are made, the sleeps add up to at most backoff * N*(N+1)/2, and the call
\* always has a next step until it has returned or raised, which it does
\* after at most N POSTs and N sleeps.
C7_RetryCeiling ==
    attempts >= 1 =>
        /\ Len(sent) <= attempts
        /\ Len(sleeps) <= attempts
        /\ SumSeq(sleeps) <= backoff * ((attempts * (attempts + 1)) \div 2)
        /\ (~Finished => ENABLED NextRetry)

C7_Witness ==
    /\ attempts = 3 /\ rpc = "raised"
    /\ Len(sent) = 3
    /\ sent[1].exc = "Timeout" /\ sent[2].exc = "ConnectionError"
    /\ SumSeq(sleeps) = backoff * 6

\* C8: the sleep after attempt k lasts backoff * k, and sleeps occur only
\* between attempts: a finished run of n attempts contains n - 1 sleeps.
C8_SleepsOnlyBetweenAttempts ==
    /\ \A k \in 1..Len(sleeps) : sleeps[k] = backoff * k
    /\ (attempts >= 1 /\ Finished) => Len(sleeps) = Len(sent) - 1

\* C9: when all N >= 1 attempts raise, the exception raised to the caller is
\* the one of the last attempt; log_to_elasticsearch prints it and lets
\* nothing escape.
C9_LastExceptionSwallowed ==
    /\ (attempts >= 1 /\ raised # None) =>
          /\ Len(sent) = attempts
          /\ \A j \in 1..Len(sent) : sent[j].exc # None
          /\ raised = sent[Len(sent)].exc
    /\ (rpc = "done" /\ raised # None) => logStatus = "failed after retries"
    /\ escaped = None

C9_Witness ==
    /\ caller = "log_to_elasticsearch" /\ rpc = "done"
    /\ Len(sent) = 3
    /\ sent[1].exc = "Timeout" /\ sent[2].exc = "Timeout" /\ sent[3].exc = "ConnectionError"
    /\ raised = "ConnectionError"
    /\ logStatus = "failed after retries"

\* C10: if attempts 1..k fail and attempt k+1 (k+1 <= attempts) succeeds, the
\* helper has returned right after attempt k+1: k+1 POSTs were made, one of
\* them successful, and nothing is sent after the success.
C10_StopsAtFirstSuccess ==
    \A k \in 0..(Len(sent) - 1) :
        (/\ k < attempts
         /\ \A j \in 1..k : SinkFailed(sent[j])
         /\ SinkAccepted(sent[k + 1]))
            => /\ Len(sent) = k + 1
               /\ rpc \in {"returned", "done"}
               /\ res = sent[k + 1].status
               /\ Cardinality(Successes) = 1
               /\ raised = None

C10_Witness ==
    /\ rpc = "returned"
    /\ Len(sent) = 3
    /\ SinkFailed(sent[1]) /\ SinkFailed(sent[2]) /\ SinkAccepted(sent[3])
    /\ Len(sleeps) = 2

\* ============================================================ sink writers
\* push_to_elasticsearch (metrics_bridge.py), push_bulk_to_es (prom_to_es.py)
\* and the script load_mock_to_es.py, each called once.

\* INDEX of prom_to_es.py
INDEX == <<"p","r","o","m","e","t","h","e","u","s","_","b","r","i","d","g","e">>

\* the index name written out in load_mock_to_es.py
LOADER_INDEX == <<"p","r","o","m","e","t","h","e","u","s","_","b","r","i","d","g","e">>

\* a call without a timeout argument
NO_TIMEOUT == 0
BULK_TIMEOUT == 15

\* json.dumps of a string: quotes around it, and ", \ and line break escaped
RECURSIVE JsonEscape(_)
JsonEscape(str) ==
    IF str = <<>> THEN <<>>
    ELSE (CASE Head(str) = "\"" -> <<"\\", "\"">>
            [] Head(str) = "\\" -> <<"\\", "\\">>
            [] Head(str) = "\n" -> <<"\\", "n">>
            [] OTHER -> <<Head(str)>>) \o JsonEscape(Tail(str))

JsonString(str) == <<"\"">> \o JsonEscape(str) \o <<"\"">>

DigitChar(d) ==
    CASE d = 0 -> "0" [] d = 1 -> "1" [] d = 2 -> "2" [] d = 3 -> "3" [] d = 4 -> "4"
      [] d = 5 -> "5" [] d = 6 -> "6" [] d = 7 -> "7" [] d = 8 -> "8" [] d = 9 -> "9"

\* json.dumps of a non-negative int
RECURSIVE JsonInt(_)
JsonInt(n) == IF n < 10 THEN <<DigitChar(n)>> ELSE JsonInt(n \div 10) \o <<DigitChar(n % 10)>>

\* json.dumps(doc) of a document {"metric": ..., "value": ...}
JsonDumps(doc) ==
    <<"{","\"","m","e","t","r","i","c","\"",":"," ">> \o JsonString(doc.metric)
    \o <<","," ","\"","v","a","l","u","e","\"",":"," ">> \o JsonInt(doc.value) \o <<"}">>

\* json.dumps({"index": {"_index": name}})
ActionLine(name) ==
    <<"{","\"","i","n","d","e","x","\"",":"," ","{","\"","_","i","n","d","e","x","\"",":"," ">>
    \o JsonString(name) \o <<"}","}">>

\* push_bulk_to_es: bulk_data += action + "\n"; bulk_data += json.dumps(doc) + "\n"
RECURSIVE BulkBody(_)
BulkBody(docs) ==
    IF docs = <<>> THEN <<>>
    ELSE ActionLine(INDEX) \o <<"\n">> \o JsonDumps(Head(docs)) \o <<"\n">>
         \o BulkBody(Tail(docs))

\* load_mock_to_es: the list bulk_lines
RECURSIVE LoaderLines(_)
LoaderLines(data) ==
    IF data = <<>> THEN <<>>
    ELSE <<ActionLine(LOADER_INDEX), JsonDumps(Head(data))>> \o LoaderLines(Tail(data))

\* "\n".join(lines)
RECURSIVE Join(_)
Join(lines) ==
    IF lines = <<>> THEN <<>>
    ELSE IF Len(lines) = 1 THEN lines[1]
    ELSE lines[1] \o <<"\n">> \o Join(Tail(lines))

\* faulty variant: the final line break is forgotten
LoaderBodyNoFinalBreak(data) == Join(LoaderLines(data))

\* bulk_body = "\n".join(bulk_lines) + "\n"
LoaderBody(data) == Join(LoaderLines(data)) \o <<"\n">>

\* faulty variant: only 200 counts as success
BulkAcceptsOnly200(o) == o.status = 200

\* r.status_code not in (200, 201) is reported as a failure
BulkAccepts(o) == o.status \in {200, 201}

\* faulty variant: a handler narrower than Exception
WriterCatchesOnlyConnectionError(exc) == exc = "ConnectionError"

\* except Exception as e, in push_to_elasticsearch and in push_bulk_to_es
WriterCatches(exc) == TRUE

DocPool ==
    { [metric |-> <<"a">>, value |-> 1],
      [metric |-> <<"a", "\n", "b">>, value |-> 25],
      [metric |-> <<"q", "\"", "\\">>, value |-> 0] }

\* all sequences of at most n elements of pool
RECURSIVE SeqsUpTo(_, _)
SeqsUpTo(pool, n) ==
    IF n = 0 THEN {<<>>}
    ELSE LET shorter == SeqsUpTo(pool, n - 1)
         IN  shorter \cup {Append(q, x) : q \in shorter, x \in pool}

Batches == SeqsUpTo(DocPool, MaxDocs)

\* what the sink can do with a POST: answer, fail, or never answer
WriterOutcomes == SinkOutcomes \cup [exc : {"NoAnswer"}, status : {0}]

\* the timeout argument of the requests.post of each writer
TimeoutOf(w) ==
    CASE w = "push_to_elasticsearch" -> PUSH_TIMEOUT
      [] w = "push_bulk_to_es" -> BULK_TIMEOUT
      [] w = "load_mock_to_es" -> NO_TIMEOUT

\* a sink that never answers: requests raises Timeout when the call has a
\* timeout, and does not return when it has none
Seen(o, timeout) ==
    IF o.exc = "NoAnswer" /\ timeout # NO_TIMEOUT THEN [exc |-> "Timeout", status |-> 0] ELSE o

InitWriters ==
    /\ wcall \in {"push_to_elasticsearch", "push_bulk_to_es", "load_mock_to_es"}
    /\ wdocs \in (IF wcall = "push_to_elasticsearch" THEN {<<>>} ELSE Batches)
    /\ wpc = "call"
    /\ wposts = 0
    /\ wbody = <<>>
    /\ wreport = None
    /\ wraised = None
    /\ wout = [exc |-> None, status |-> 0]
    /\ BridgeOff /\ RetryOff /\ ParseOff /\ IndexOff /\ QueryOff

\* push_to_elasticsearch(service_name, metrics), called on its own
WriterPush ==
    /\ wcall = "push_to_elasticsearch" /\ wpc = "call"
    /\ \E o \in WriterOutcomes :
        LET seen == Seen(o, TimeoutOf(wcall))
        IN  /\ wout' = o
            /\ wposts' = wposts + 1
            /\ IF seen.exc = "NoAnswer"
               THEN wpc' = "hung" /\ UNCHANGED <<wreport, wraised>>
               ELSE /\ wpc' = "done"
                    /\ IF seen.exc # None
                       THEN IF WriterCatches(seen.exc)
                            THEN wreport' = "failed" /\ UNCHANGED wraised
                            ELSE wraised' = seen.exc /\ UNCHANGED wreport
                       ELSE /\ wreport' = IF SinkAccepted(seen) THEN "pushed" ELSE "failed"
                            /\ UNCHANGED wraised
    /\ UNCHANGED <<wcall, wdocs, wbody>>
    /\ UNCHANGED <<bridgeVars, retryVars, parseVars, indexVars, queryVars>>

\* push_bulk_to_es(docs)
WriterBulk ==
    /\ wcall = "push_bulk_to_es" /\ wpc = "call"
    /\ IF wdocs = <<>>
       THEN wpc' = "done" /\ UNCHANGED <<wposts, wbody, wreport, wraised, wout>>
       ELSE \E o \in WriterOutcomes :
            LET seen == Seen(o, TimeoutOf(wcall))
            IN  /\ wout' = o
                /\ wbody' = BulkBody(wdocs)
                /\ wposts' = wposts + 1
                /\ IF seen.exc = "NoAnswer"
                   THEN wpc' = "hung" /\ UNCHANGED <<wreport, wraised>>
                   ELSE /\ wpc' = "done"
                        /\ IF seen.exc # None
                           THEN IF WriterCatches(seen.exc)
                                THEN wreport' = "failed" /\ UNCHANGED wraised
                                ELSE wraised' = seen.exc /\ UNCHANGED wreport
                           ELSE /\ wreport' = IF BulkAccepts(seen) THEN None ELSE "failed"
                                /\ UNCHANGED wraised
    /\ UNCHANGED <<wcall, wdocs>>
    /\ UNCHANGED <<bridgeVars, retryVars, parseVars, indexVars, queryVars>>

\* load_mock_to_es.py: build the body, POST it, print status and response
WriterLoader ==
    /\ wcall = "load_mock_to_es" /\ wpc = "call"
    /\ \E o \in WriterOutcomes :
        LET seen == Seen(o, TimeoutOf(wcall))
        IN  /\ wout' = o
            /\ wbody' = LoaderBody(wdocs)
            /\ wposts' = wposts + 1
            /\ IF seen.exc = "NoAnswer"
               THEN wpc' = "hung" /\ UNCHANGED <<wreport, wraised>>
               ELSE /\ wpc' = "done"
                    /\ IF seen.exc # None
                       THEN wraised' = seen.exc /\ UNCHANGED wreport
                       ELSE wreport' = "status" /\ UNCHANGED wraised
    /\ UNCHANGED <<wcall, wdocs>>
    /\ UNCHANGED <<bridgeVars, retryVars, parseVars, indexVars, queryVars>>

NextWriters == WriterPush \/ WriterBulk \/ WriterLoader

SpecWriters == InitWriters /\ [][NextWriters]_vars

C12_BulkWireFormat ==
    /\ (wcall \in {"push_bulk_to_es", "load_mock_to_es"} /\ wposts = 1 /\ Len(wdocs) >= 1) =>
          LET pieces == Split(wbody, "\n")
              n == Len(wdocs)
          IN  /\ Len(pieces) = 2 * n + 1
              /\ pieces[2 * n + 1] = <<>>
              /\ \A k \in 1..n :
                    /\ pieces[2 * k - 1] = ActionLine(INDEX)
                    /\ pieces[2 * k] = JsonDumps(wdocs[k])
              /\ wbody = BulkBody(wdocs)
              /\ wbody = LoaderBody(wdocs)
    /\ (wcall = "push_bulk_to_es" /\ wdocs = <<>>) => wposts = 0

C12_Witness ==
    /\ wcall = "load_mock_to_es" /\ wposts = 1 /\ Len(wdocs) = 2
    /\ wdocs[1].metric = <<"a", "\n", "b">>

\* C15: every outbound call carries a timeout, so no caller is blocked
\* forever by a sink that never answers.
C15_NoCallBlocksForever == wpc # "hung"

\* ===================================== calls of parse_prometheus_metrics
\* lines a payload can be made of: well-formed ones (two of them for the same
\* name, one padded with whitespace) and malformed ones (comment, label
\* block, one token, value that is no number, three tokens)
LinePool ==
    { <<"a", " ", "1">>,
      <<"a", " ", "2", ".", "5">>,
      <<" ", "b", " ", " ", "-", "4", " ">>,
      <<"#", " ", "a", " ", "9">>,
      <<"a", "{", "x", "}", " ", "3">>,
      <<"b", "a", "d">>,
      <<"b", " ", "x">>,
      <<"a", " ", "1", " ", "2">> }

SecondLines ==
    { << <<"b", " ", "7">>, <<"b", " ", "x">> >>,
      << <<"c", " ", "0", ".", "5", "0">> >> }

\* the payload text written from lines, with or without a final line break
TextOf(lines, final) == IF final /\ lines # <<>> THEN Join(lines) \o <<"\n">> ELSE Join(lines)

InitParse ==
    /\ plines \in SeqsUpTo(LinePool, MaxLines)
    /\ \E final \in BOOLEAN : ptext = TextOf(plines, final)
    /\ presult = EmptyDict
    /\ pprev = <<>>
    /\ pprevResult = EmptyDict
    /\ pcount = 0
    /\ BridgeOff /\ RetryOff /\ WritersOff /\ IndexOff /\ QueryOff

\* the first call: parse_prometheus_metrics(ptext)
ParseCall ==
    /\ pcount = 0
    /\ presult' = parse_prometheus_metrics(ptext)
    /\ pcount' = 1
    /\ UNCHANGED <<plines, ptext, pprev, pprevResult>>
    /\ UNCHANGED <<bridgeVars, retryVars, writerVars, indexVars, queryVars>>

\* a later call, on the same lines or on other ones
ParseAgain ==
    /\ pcount = 1
    /\ \E lines \in {plines} \cup SecondLines : \E final \in BOOLEAN :
        /\ plines' = lines
        /\ ptext' = TextOf(lines, final)
        /\ presult' = parse_prometheus_metrics(TextOf(lines, final))
    /\ pprev' = ptext
    /\ pprevResult' = presult
    /\ pcount' = 2
    /\ UNCHANGED <<bridgeVars, retryVars, writerVars, indexVars, queryVars>>

NextParse == ParseCall \/ ParseAgain

SpecParse == InitParse /\ [][NextParse]_vars

\* a line the parser has to take: no comment, no label block, two tokens, a number
WellFormed(line) ==
    /\ ~StartsWith(line, "#")
    /\ ~Contains(line, "{")
    /\ Len(StripSplit(line)) = 2
    /\ ParseFloat(StripSplit(line)[2]).err = None

NameOn(line) == StripSplit(line)[1]

ValueOn(line) == ParseFloat(StripSplit(line)[2])

\* the positions of the well-formed lines
WellFormedIn(lines) == {k \in 1..Len(lines) : WellFormed(lines[k])}

\* the last well-formed line carrying name n
LastFor(lines, n) ==
    CHOOSE k \in WellFormedIn(lines) :
        /\ NameOn(lines[k]) = n
        /\ \A j \in WellFormedIn(lines) : NameOn(lines[j]) = n => j <= k

\* C13: after a call on a payload of well-formed and malformed lines in any
\* order, the mapping returned has exactly the names of the well-formed lines
\* as keys, and each name has the value of the last well-formed line that
\* carries it; malformed lines add nothing and stop nothing.
C13_ExactlyWellFormedLastWins ==
    pcount = 1 =>
        /\ DOMAIN presult = {NameOn(plines[k]) : k \in WellFormedIn(plines)}
        /\ \A n \in DOMAIN presult : presult[n] = ValueOn(plines[LastFor(plines, n)])

\* a payload with a malformed line between two well-formed lines for one name
C13_Witness ==
    /\ pcount = 1
    /\ Len(plines) = 3
    /\ WellFormed(plines[1]) /\ ~WellFormed(plines[2]) /\ WellFormed(plines[3])
    /\ NameOn(plines[1]) = NameOn(plines[3])
    /\ ValueOn(plines[1]) # ValueOn(plines[3])
    /\ presult[NameOn(plines[3])] = ValueOn(plines[3])

\* C17: two calls on the same text return the same mapping, and the second
\* of two calls returns nothing that comes from the text of the first: its
\* keys are names on well-formed lines of its own text, with their values.
C17_SameTextSameMapping ==
    pcount = 2 =>
        /\ (ptext = pprev => presult = pprevResult)
        /\ \A n \in DOMAIN presult :
              \E k \in WellFormedIn(plines) :
                  NameOn(plines[k]) = n /\ presult[n] = ValueOn(plines[k])

\* a second call on the same text, and one on another text that shares no name
C17_Witness ==
    /\ pcount = 2
    /\ ptext = pprev
    /\ presult # EmptyDict

C17_WitnessOtherText ==
    /\ pcount = 2
    /\ ptext # pprev
    /\ pprevResult # EmptyDict
    /\ presult # EmptyDict
    /\ DOMAIN presult \cap DOMAIN pprevResult = {}

\* ================================================ documents of the bridge
\* C14: every document handed to the sink in a tick carries the mapping parsed
\* from the payload its own source answered with (status 200) in this tick,
\* is tagged with the identifier derived from that source's URL, and has a
\* timestamp not earlier than the start of that fetch nor than the timestamp
\* of the previous document of the same source.
C14_DocumentOfItsOwnFetch ==
    \A k \in 1..Len(pushLog) :
        LET d == pushLog[k]
        IN  /\ d.metrics = parse_prometheus_metrics(d.payload)
            /\ \E f \in Fetched(d.src) : fetchLog[f].exc = None /\ fetchLog[f].status = 200
            /\ d.service = ServiceName(endpoints[d.src])
            /\ \A j \in 1..Len(pushLog) : pushLog[j].service = d.service => pushLog[j].src = d.src
            /\ InstantOf(d.timestamp) >= d.fetchStart
            /\ InstantOf(d.timestamp) >= InstantOf(lastTs[d.src])
            /\ \A j \in 1..(k - 1) : InstantOf(pushLog[j].timestamp) <= InstantOf(d.timestamp)

\* a second tick in which both sources are pushed, with different mappings,
\* after both were pushed in the first tick
C14_Witness ==
    /\ tick = 1
    /\ Len(pushLog) = 2
    /\ pushLog[1].src # pushLog[2].src
    /\ pushLog[1].metrics # pushLog[2].metrics
    /\ \A s \in Sources : InstantOf(lastTs[s]) > 0
    /\ \A k \in 1..2 : InstantOf(pushLog[k].timestamp) > pushLog[k].fetchStart

\* ====================================================== ensure_elastic_index
INDEX_TIMEOUT == 3

\* requests.exceptions.RequestException and its subclasses
RequestExceptions == {"ConnectionError", "Timeout"}

\* what the sink can do with the GET and with the PUT of the index URL
IndexGetOutcomes ==
    [exc : RequestExceptions, status : {0}] \cup [exc : {None}, status : {200, 404, 500}]

IndexPutOutcomes ==
    [exc : RequestExceptions, status : {0}] \cup [exc : {None}, status : {200, 201, 400, 500}]

\* faulty variant: only a timeout is caught
IndexCatchesOnlyTimeout(exc) == exc = "Timeout"

\* except requests.exceptions.RequestException
IndexCatches(exc) == exc \in RequestExceptions

\* faulty variant: any answer to the GET counts as "exists"
AnyAnswerExists(o) == o.exc = None

\* r.status_code == 200 on the GET
IndexExists(o) == o.exc = None /\ o.status = 200

\* r.status_code in (200, 201) on the PUT
IndexCreated(o) == o.exc = None /\ o.status \in {200, 201}

InitIndex ==
    /\ epc = "get"
    /\ etimeout \in {1, INDEX_TIMEOUT}
    /\ getOut \in IndexGetOutcomes
    /\ putOut \in IndexPutOutcomes
    /\ egets = 0
    /\ eputs = 0
    /\ eresult = None
    /\ eraised = None
    /\ BridgeOff /\ RetryOff /\ ParseOff /\ WritersOff /\ QueryOff

\* the first try block: requests.get(ELASTIC_INDEX_URL, timeout=timeout)
IndexGet ==
    /\ epc = "get"
    /\ egets' = egets + 1
    /\ IF getOut.exc # None
       THEN IF IndexCatches(getOut.exc)
            THEN epc' = "put" /\ UNCHANGED <<eresult, eraised>>
            ELSE epc' = "done" /\ eraised' = getOut.exc /\ UNCHANGED eresult
       ELSE IF IndexExists(getOut)
            THEN epc' = "done" /\ eresult' = "True" /\ UNCHANGED eraised
            ELSE epc' = "put" /\ UNCHANGED <<eresult, eraised>>
    /\ UNCHANGED <<etimeout, getOut, putOut, eputs>>
    /\ UNCHANGED <<bridgeVars, retryVars, parseVars, writerVars, queryVars>>

\* the second try block: requests.put(ELASTIC_INDEX_URL, json=DEFAULT_MAPPING, ...)
IndexPut ==
    /\ epc = "put"
    /\ eputs' = eputs + 1
    /\ epc' = "done"
    /\ IF putOut.exc # None
       THEN IF IndexCatches(putOut.exc)
            THEN eresult' = "False" /\ UNCHANGED eraised
            ELSE eraised' = putOut.exc /\ UNCHANGED eresult
       ELSE /\ eresult' = IF IndexCreated(putOut) THEN "True" ELSE "False"
            /\ UNCHANGED eraised
    /\ UNCHANGED <<etimeout, getOut, putOut, egets>>
    /\ UNCHANGED <<bridgeVars, retryVars, parseVars, writerVars, queryVars>>

NextIndex == IndexGet \/ IndexPut

SpecIndex == InitIndex /\ [][NextIndex]_vars

\* C16: the GET is issued first and once; when it answers 200 the function
\* returns true without a PUT; the PUT is sent, once, only after a GET that
\* did not answer 200; the function returns true exactly when the GET
\* answered 200 or the PUT answered 200 or 201; it raises nothing, and
\* returns false when neither request reaches the sink.
C16_IndexProtocol ==
    LET got200 == getOut.exc = None /\ getOut.status = 200
        put2xx == putOut.exc = None /\ putOut.status \in {200, 201}
    IN  /\ eputs <= egets /\ egets <= 1 /\ eputs <= 1
        /\ eraised = None
        /\ (eputs = 1) => ~got200
        /\ (epc = "done") =>
              /\ egets = 1
              /\ got200 => (eputs = 0 /\ eresult = "True")
              /\ ~got200 => eputs = 1
              /\ eresult \in {"True", "False"}
              /\ (eresult = "True") <=> (got200 \/ (eputs = 1 /\ put2xx))
              /\ (getOut.exc # None /\ putOut.exc # None) => eresult = "False"

\* the sink is unreachable for both requests, and the function has returned
C16_Witness ==
    /\ epc = "done"
    /\ getOut.exc = "ConnectionError" /\ putOut.exc = "Timeout"
    /\ egets = 1 /\ eputs = 1
    /\ eresult = "False"

\* the index is absent (404) and the PUT creates it
C16_WitnessCreated ==
    /\ epc = "done"
    /\ getOut.status = 404 /\ putOut.status = 201
    /\ eresult = "True"

\* ================================================ other configured sources
\* a source URL without a port segment: http://localhost/metrics
NoPortUrl ==
    <<"h","t","t","p",":","/","/","l","o","c","a","l","h","o","s","t","/","m","e","t","r","i","c","s">>

\* values PROM_ENDPOINTS can be given: the two of the repository, or one of
\* them replaced by a URL without a port
Configs ==
    { PROM_ENDPOINTS,
      <<NoPortUrl, PROM_ENDPOINTS[2]>>,
      <<PROM_ENDPOINTS[1], NoPortUrl>> }

InitCfg ==
    /\ endpoints \in Configs
    /\ mode = [s \in 1..Len(PROM_ENDPOINTS) |-> "any"]
    /\ pc = "poll"
    /\ tick = 0
    /\ idx = 1
    /\ now = 0
    /\ pending = NoPending
    /\ fetchLog = <<>>
    /\ pushLog = <<>>
    /\ failedBefore = [s \in 1..Len(PROM_ENDPOINTS) |-> FALSE]
    /\ lastTs = [s \in 1..Len(PROM_ENDPOINTS) |-> NoTimestamp]
    /\ RetryOff /\ ParseOff /\ WritersOff /\ IndexOff /\ QueryOff

SpecCfg == InitCfg /\ [][Next]_vars

\* C18: whatever URLs are configured, including one without a port segment,
\* deriving the identifier of a source never ends main: the for loop and the
\* while loop go on.
C18_DerivationContained == pc # "exited"

\* ================================================================ query_docs
TOP_K == 3

\* the metadata list of n chunks; chunk k stands for metadata[k - 1]["text"]
RECURSIVE Chunks(_)
Chunks(n) == IF n = 0 THEN <<>> ELSE Append(Chunks(n - 1), n)

\* index.search(emb, TOP_K) on an index of n vectors: the ids of the
\* min(n, TOP_K) nearest vectors, in some order, then -1 for every missing
\* neighbour
SearchResults(n) ==
    LET found == IF n < TOP_K THEN n ELSE TOP_K
    IN  { r \in SeqsUpTo((0..(n - 1)) \cup {-1}, TOP_K) :
            /\ Len(r) = TOP_K
            /\ \A k \in 1..found : r[k] >= 0
            /\ \A k \in (found + 1)..TOP_K : r[k] = -1
            /\ \A j, k \in 1..found : j # k => r[j] # r[k] }

\* if i < len(metadata)
Selected(id, n) == id < n

\* does metadata[id] raise IndexError (Python list indexing, negative ids
\* count from the end)
IndexErrorAt(id, n) == id >= n \/ id < -n

\* metadata[id]
PyItem(list, id) == IF id >= 0 THEN list[id + 1] ELSE list[Len(list) + id + 1]

\* [metadata[i]["text"] for i in idxs[0] if i < len(metadata)]
RECURSIVE Comprehension(_, _)
Comprehension(ids, list) ==
    IF ids = <<>> THEN <<>>
    ELSE IF Selected(Head(ids), Len(list))
         THEN <<PyItem(list, Head(ids))>> \o Comprehension(Tail(ids), list)
         ELSE Comprehension(Tail(ids), list)

ComprehensionRaises(ids, list) ==
    \E k \in 1..Len(ids) : Selected(ids[k], Len(list)) /\ IndexErrorAt(ids[k], Len(list))

\* faulty variant: a request whose log write did not succeed is answered 500
StatusNeedsLog(exc, log) == IF exc = None /\ log = "logged" THEN 200 ELSE 500

\* the status of the JSONResponse returned: 200 from the try block, 500 from
\* the except block, whatever log_to_elasticsearch printed
StatusReturned(exc, log) == IF exc = None THEN 200 ELSE 500

LogScripts == [1..DEFAULT_ATTEMPTS -> SinkOutcomes]

InitQuery ==
    /\ qpc = "retrieve"
    /\ ntotal \in 0..MaxVec
    /\ \E n \in 0..MaxVec : metadata = Chunks(n)
    /\ idxs = <<>>
    /\ contexts = <<>>
    /\ qsuccess = 0
    /\ qerror = 0
    /\ logCalls = 0
    /\ response = 0
    /\ qexc = None
    /\ BridgeOff /\ RetryOff /\ ParseOff /\ WritersOff /\ IndexOff

\* the try block up to the contexts: encode, search, comprehension
Retrieve ==
    /\ qpc = "retrieve"
    /\ \/ /\ qexc' = "RuntimeError"
          /\ qpc' = "failed"
          /\ UNCHANGED <<idxs, contexts>>
       \/ \E r \in SearchResults(ntotal) :
            /\ idxs' = r
            /\ IF ComprehensionRaises(r, metadata)
               THEN qexc' = "IndexError" /\ qpc' = "failed" /\ UNCHANGED contexts
               ELSE contexts' = Comprehension(r, metadata) /\ qpc' = "generate" /\ UNCHANGED qexc
    /\ UNCHANGED <<ntotal, metadata, qsuccess, qerror, logCalls, response>>
    /\ UNCHANGED <<bridgeVars, retryVars, parseVars, writerVars, indexVars>>

\* answer = run_ollama(prompt), which returns a string whatever happens, then
\* rag_queries_total.labels(status="success").inc()
Generate ==
    /\ qpc = "generate"
    /\ qsuccess' = qsuccess + 1
    /\ qpc' = "log"
    /\ UNCHANGED <<ntotal, metadata, idxs, contexts, qerror, logCalls, response, qexc>>
    /\ UNCHANGED <<bridgeVars, retryVars, parseVars, writerVars, indexVars>>

\* except Exception as e: rag_queries_total.labels(status="error").inc()
Fail ==
    /\ qpc = "failed"
    /\ qerror' = qerror + 1
    /\ qpc' = "log"
    /\ UNCHANGED <<ntotal, metadata, idxs, contexts, qsuccess, logCalls, response, qexc>>
    /\ UNCHANGED <<bridgeVars, retryVars, parseVars, writerVars, indexVars>>

\* the call log_to_elasticsearch(...): _post_json_with_retries(..., attempts=3, backoff=0.5)
StartLog ==
    /\ qpc = "log"
    /\ rpc = "off"
    /\ logCalls' = logCalls + 1
    /\ caller' = "log_to_elasticsearch"
    /\ attempts' = DEFAULT_ATTEMPTS
    /\ backoff' = DEFAULT_BACKOFF
    /\ sink' \in LogScripts
    /\ rpc' = "loop"
    /\ UNCHANGED <<i, last_exc, raised, escaped, res, sent, sleeps, logStatus>>
    /\ UNCHANGED <<qpc, ntotal, metadata, idxs, contexts, qsuccess, qerror, response, qexc>>
    /\ UNCHANGED <<bridgeVars, parseVars, writerVars, indexVars>>

\* after log_to_elasticsearch returned or raised (except Exception around the
\* call): return JSONResponse(...)
Respond ==
    /\ qpc = "log"
    /\ rpc = "done"
    /\ response' = StatusReturned(qexc, logStatus)
    /\ qpc' = "done"
    /\ UNCHANGED <<ntotal, metadata, idxs, contexts, qsuccess, qerror, logCalls, qexc>>
    /\ UNCHANGED <<bridgeVars, retryVars, parseVars, writerVars, indexVars>>

NextQuery ==
    \/ Retrieve \/ Generate \/ Fail \/ StartLog \/ Respond
    \/ Attempt \/ Backoff \/ Raise \/ LogOutcome

SpecQuery == InitQuery /\ [][NextQuery]_vars

\* C19: a request increments at most one of the two counters and calls
\* log_to_elasticsearch at most once, with at most three POSTs; when it is
\* done it has returned a response and incremented exactly one counter: 200
\* and the success counter when the try block raised nothing, 500 and the
\* error counter otherwise, whatever the log write did.
C19_ResponseAndCounterDespiteLog ==
    /\ qsuccess + qerror <= 1
    /\ logCalls <= 1
    /\ Len(sent) <= 3
    /\ escaped = None
    /\ (qpc = "done") =>
          /\ logCalls = 1
          /\ qsuccess + qerror = 1
          /\ (qexc = None) => (response = 200 /\ qsuccess = 1)
          /\ (qexc # None) => (response = 500 /\ qerror = 1)

\* a request answered 200 although all three POSTs of its log write raised
C19_Witness ==
    /\ qpc = "done"
    /\ response = 200 /\ qsuccess = 1 /\ qerror = 0
    /\ Len(sent) = 3
    /\ \A k \in 1..3 : sent[k].exc # None
    /\ logStatus = "failed after retries"

\* a request answered 500 whose log write got a non-success status
C19_WitnessError ==
    /\ qpc = "done"
    /\ response = 500 /\ qerror = 1 /\ qsuccess = 0
    /\ logStatus = "failed to log"

\* the entries of the list for the ids of the search that lie in 0..len-1, in order
RECURSIVE InRangeItems(_, _)
InRangeItems(ids, list) ==
    IF ids = <<>> THEN <<>>
    ELSE IF 0 <= Head(ids) /\ Head(ids) < Len(list)
         THEN <<list[Head(ids) + 1]>> \o InRangeItems(Tail(ids), list)
         ELSE InRangeItems(Tail(ids), list)

\* C20: once the search has returned, no id outside 0..len(metadata)-1 makes
\* the request fail, and the contexts passed on are exactly the metadata
\* entries of the returned ids that lie in 0..len(metadata)-1; the -1 of a
\* missing neighbour contributes nothing.
C20_ContextsOnlyFromValidIds ==
    (idxs # <<>>) =>
        /\ qexc = None
        /\ (qpc # "retrieve") => contexts = InRangeItems(idxs, metadata)

====
